---- MODULE Spec2Model ----
(***************************************************************************)
(* Model of the KEL103 electronic-load driver (src/src/lib.rs).            *)
(*                                                                         *)
(* Text is a sequence of one-character strings.  An f32 is modelled by the *)
(* decimal number it is nearest to, counted in units of 1/Scale; the       *)
(* decimal texts of the model have at most seven significant digits, so    *)
(* distinct texts denote distinct f32 values.                              *)
(***************************************************************************)
EXTENDS Integers, Sequences, FiniteSets, TLC

(* ------------------------------ bounds --------------------------------- *)

\* Largest number of reply lines the device sends in one session.
MaxQueue == 3

\* Decimal digits after the point that a modelled f32 resolves.
FracDigits == 4

(* ---------------------------- characters ------------------------------- *)

LF == "\n"
CR == "\r"
SP == " "
TAB == "\t"
\* A byte that is not valid UTF-8 (0xFF).
BAD == "<FF>"

DigitChars == <<"0", "1", "2", "3", "4", "5", "6", "7", "8", "9">>

IsDigit(c) == \E i \in 1..10 : DigitChars[i] = c

DigitVal(c) == (CHOOSE i \in 1..10 : DigitChars[i] = c) - 1

\* char::is_whitespace, restricted to the characters of the model.
IsWhitespace(c) == c \in {SP, TAB, LF, CR}

(* ------------------------- str / slice helpers ------------------------- *)

\* str::contains(pat)
contains(s, pat) ==
    \E i \in 1..(Len(s) - Len(pat) + 1) : SubSeq(s, i, i + Len(pat) - 1) = pat

\* str::trim_end_matches(&[char]): drop the longest suffix made of chars of cs.
RECURSIVE trim_end_matches(_, _)
trim_end_matches(s, cs) ==
    IF s # <<>> /\ s[Len(s)] \in cs
    THEN trim_end_matches(SubSeq(s, 1, Len(s) - 1), cs)
    ELSE s

RECURSIVE trim_end(_)
trim_end(s) ==
    IF s # <<>> /\ IsWhitespace(s[Len(s)])
    THEN trim_end(SubSeq(s, 1, Len(s) - 1))
    ELSE s

RECURSIVE trim_start(_)
trim_start(s) ==
    IF s # <<>> /\ IsWhitespace(s[1]) THEN trim_start(Tail(s)) ELSE s

\* str::trim(): leading and trailing whitespace removed.
trim(s) == trim_start(trim_end(s))

\* Index of the first occurrence of c in s, 0 when there is none.
IndexOf(s, c) ==
    IF \E i \in 1..Len(s) : s[i] = c
    THEN CHOOSE i \in 1..Len(s) : s[i] = c /\ \A j \in 1..(i - 1) : s[j] # c
    ELSE 0

\* String::from_utf8 succeeds iff every byte sequence is valid.
IsUtf8(bytes) == \A i \in 1..Len(bytes) : bytes[i] # BAD

(* ------------------------------ values --------------------------------- *)

\* The values operations take, return and report.
F32(n) == [t |-> "f32", n |-> n, s |-> <<>>]
NaN == [t |-> "nan", n |-> 0, s |-> <<>>]
Inf(sign) == [t |-> "inf", n |-> sign, s |-> <<>>]
Bool(b) == [t |-> "bool", n |-> IF b THEN 1 ELSE 0, s |-> <<>>]
Str(s) == [t |-> "str", n |-> 0, s |-> s]
Unit == [t |-> "unit", n |-> 0, s |-> <<>>]

Abs(x) == IF x < 0 THEN -x ELSE x

RECURSIVE Pow10(_)
Pow10(k) == IF k = 0 THEN 1 ELSE 10 * Pow10(k - 1)

\* Units per 1.0 of a modelled f32.
Scale == Pow10(FracDigits)

RECURSIVE DigitsVal(_)
DigitsVal(ds) ==
    IF ds = <<>> THEN 0
    ELSE 10 * DigitsVal(SubSeq(ds, 1, Len(ds) - 1)) + DigitVal(ds[Len(ds)])

RECURSIVE DigitsOf(_)
DigitsOf(n) ==
    IF n < 10 THEN <<DigitChars[n + 1]>>
    ELSE Append(DigitsOf(n \div 10), DigitChars[(n % 10) + 1])

AllDigits(ds) == \A i \in 1..Len(ds) : IsDigit(ds[i])

\* The case variants of the special literals that the model's alphabet spells.
NanTexts == {<<"N", "A", "N">>, <<"n", "a", "n">>, <<"N", "a", "N">>}
InfTexts == {<<"I", "N", "F">>, <<"i", "n", "f">>}

\* The fraction digits as a count of 1/Scale units (digits past FracDigits
\* are below the model's resolution).
FracVal(fs) ==
    LET kept == IF Len(fs) > FracDigits THEN SubSeq(fs, 1, FracDigits) ELSE fs
    IN  DigitsVal(kept) * Pow10(FracDigits - Len(kept))

\* <f32 as FromStr>::from_str on an unsigned literal without exponent.
parse_unsigned(s) ==
    LET dot == IndexOf(s, ".")
        ip == IF dot = 0 THEN s ELSE SubSeq(s, 1, dot - 1)
        fp == IF dot = 0 THEN <<>> ELSE SubSeq(s, dot + 1, Len(s))
    IN  IF s \in NanTexts THEN [ok |-> TRUE, val |-> NaN, err |-> "none"]
        ELSE IF s \in InfTexts THEN [ok |-> TRUE, val |-> Inf(1), err |-> "none"]
        ELSE IF AllDigits(ip) /\ AllDigits(fp) /\ Len(ip) + Len(fp) >= 1
        THEN [ok |-> TRUE, val |-> F32(DigitsVal(ip) * Scale + FracVal(fp)),
              err |-> "none"]
        ELSE [ok |-> FALSE, val |-> Unit, err |-> "invalid float literal"]

Negate(v) ==
    IF v.t = "f32" THEN F32(-v.n)
    ELSE IF v.t = "inf" THEN Inf(-v.n)
    ELSE v

\* str::parse::<f32>(): an optional sign, then the literal.  The error is a
\* ParseFloatError, which records only its kind (Empty or Invalid).
parse_f32(s) ==
    IF s = <<>> THEN [ok |-> FALSE, val |-> Unit,
          err |-> "cannot parse float from empty string"]
    ELSE IF s[1] \in {"-", "+"}
    THEN LET r == parse_unsigned(Tail(s))
         IN  IF ~r.ok \/ s[1] = "+" THEN r ELSE [r EXCEPT !.val = Negate(r.val)]
    ELSE parse_unsigned(s)

\* format!("{:.3}", x) for x >= 0: rounded to the nearest thousandth (a tie is
\* broken by the binary value of the f32; the model's inputs have none).
Format3(n) ==
    LET step == Scale \div 1000
        q == n \div step
        r == n % step
        m == IF 2 * r > step \/ (2 * r = step /\ q % 2 = 1) THEN q + 1 ELSE q
        frac == m % 1000
    IN  DigitsOf(m \div 1000) \o <<".">> \o
        <<DigitChars[(frac \div 100) + 1], DigitChars[((frac \div 10) % 10) + 1],
          DigitChars[(frac % 10) + 1]>>

\* 1e-9 is 1 / TolInv.
TolInv == 1000000000

\* Variant: the comparison made with a tolerance of 1e-2.
exceeds_loose(a, b) ==
    IF a.t = "nan" \/ b.t = "nan" THEN FALSE
    ELSE IF a.t = "inf" /\ b.t = "inf" THEN a.n # b.n
    ELSE IF a.t = "inf" \/ b.t = "inf" THEN TRUE
    ELSE Abs(a.n - b.n) > Scale \div 100

\* (a - b).abs() > 1e-9 on f32: a NaN difference compares false.
exceeds_tolerance(a, b) ==
    IF a.t = "nan" \/ b.t = "nan" THEN FALSE
    ELSE IF a.t = "inf" /\ b.t = "inf" THEN a.n # b.n
    ELSE IF a.t = "inf" \/ b.t = "inf" THEN TRUE
    ELSE Abs(a.n - b.n) > Scale \div TolInv

(* ----------------------------- wire text ------------------------------- *)

IDN == <<"*", "I", "D", "N", "?">>
MEAS_VOLT == <<":", "M", "E", "A", "S", ":", "V", "O", "L", "T", "?">>
VOLT_Q == <<":", "V", "O", "L", "T", "?">>
VOLT_SET == <<":", "V", "O", "L", "T", SP>>
MEAS_POW == <<":", "M", "E", "A", "S", ":", "P", "O", "W", "?">>
POW_Q == <<":", "P", "O", "W", "?">>
POW_SET == <<":", "P", "O", "W", SP>>
MEAS_CURR == <<":", "M", "E", "A", "S", ":", "C", "U", "R", "R", "?">>
CURR_Q == <<":", "C", "U", "R", "R", "?">>
CURR_SET == <<":", "C", "U", "R", "R", SP>>
INP_Q == <<":", "I", "N", "P", "?">>
INP_1 == <<":", "I", "N", "P", SP, "1">>
INP_0 == <<":", "I", "N", "P", SP, "0">>
FUNC_CC == <<":", "F", "U", "N", "C", SP, "C", "C">>
FUNC_CW == <<":", "F", "U", "N", "C", SP, "C", "W">>
FUNC_CR == <<":", "F", "U", "N", "C", SP, "C", "R">>
DYN_1 == <<":", "D", "Y", "N", SP, "1", ",">>
DYN_2 == <<":", "D", "Y", "N", SP, "2", ",">>
DYN_Q == <<":", "D", "Y", "N", "?">>
KEL103 == <<"K", "E", "L", "1", "0", "3">>
ON == <<"O", "N">>
OFF == <<"O", "F", "F">>
HZ == <<"H", "Z">>
A_US == <<"A", "/", "u", "S">>

(* ------------------- reply lines the device may send ------------------- *)

ReplyKel == <<"K", "E", "L", "1", "0", "3", ",", "F", "W", "1", ".", "2", LF>>
ReplyOther == <<"O", "T", "H", "E", "R", "M", "O", "D", "E", "L", ",", "1", ".", "0", LF>>
Reply12V == <<"1", "2", ".", "5", "0", "0", "V", CR, LF>>
Reply12VSp == <<"1", "2", ".", "5", "0", "0", "V", SP, CR, LF>>
Reply12W == <<"1", "2", ".", "5", "0", "0", "W", LF>>
Reply12A == <<"1", "2", ".", "5", "0", "0", "A", CR, LF>>
Reply12Off == <<"1", "2", ".", "5", "0", "1", LF>>
ReplyFine == <<"1", ".", "2", "3", "4", "6", LF>>
ReplyMilli == <<"1", ".", "2", "3", "5", LF>>
ReplyOn == <<"O", "N", LF>>
ReplyOff == <<"O", "F", "F", LF>>
ReplyUnknown == <<"U", "N", "K", "N", "O", "W", "N", LF>>
ReplyLower == <<"o", "n", LF>>
ReplyBoth == <<"O", "N", SP, "O", "F", "F", LF>>
ReplyNan == <<"N", "A", "N", LF>>
ReplyBad == <<BAD, LF>>

\* Lines that may answer the identification query.
IdnReplies == {ReplyKel, ReplyOther, ReplyBad}

\* Lines that may answer the later queries.
Replies ==
    {Reply12V, Reply12VSp, Reply12W, Reply12A, Reply12Off, ReplyFine,
     ReplyMilli, ReplyOn, ReplyOff, ReplyUnknown, ReplyLower, ReplyBoth,
     ReplyNan, ReplyBad}

\* The start of a reply whose newline never arrives.
Fragment == <<"1", "2">>

RECURSIVE Flatten(_)
Flatten(ls) == IF ls = <<>> THEN <<>> ELSE Head(ls) \o Flatten(Tail(ls))

\* Lines queued behind the first of the later replies.
FollowUps == {Reply12Off, ReplyOn}

\* The reply lines the device has queued, at most MaxQueue: none, or the
\* answer to the identification query, then a reply, then follow-ups.
Scripts ==
    {<<>>} \cup {<<idn>> : idn \in IdnReplies} \cup
    UNION {{<<idn, l>> \o fs :
                idn \in IdnReplies, l \in Replies, fs \in [1..k -> FollowUps]} :
           k \in 0..(MaxQueue - 2)}

\* How a read ends that finds no newline buffered: at the read timeout or at
\* end of stream, after nothing more or after the start of a reply.
Endings ==
    {[more |-> m, eof |-> e] : m \in {<<>>, Fragment}, e \in BOOLEAN}

\* The endings that the buffered bytes buf leave open.
EndCases(buf) ==
    IF \E i \in 1..Len(buf) : buf[i] = LF
    THEN {[more |-> <<>>, eof |-> FALSE]}
    ELSE Endings

\* Requested values, in units of 1/Scale: 12.5 and 1.2346.
V12_5 == 125 * (Scale \div 10)
VFine == 12346 * (Scale \div 10000)
Values == {V12_5, VFine}

\* Parameter tuples of the dynamic profiles.
CvArgs ==
    {<<1 * Scale, 2 * Scale, 50 * Scale, 25 * Scale>>,
     <<2 * Scale, 1 * Scale, 25 * Scale, 50 * Scale>>}
CcArgs ==
    {<<1 * Scale, 2 * Scale, 3 * Scale, 4 * Scale, 50 * Scale, 25 * Scale>>,
     <<2 * Scale, 1 * Scale, 4 * Scale, 3 * Scale, 25 * Scale, 50 * Scale>>}

\* The read never happens, or finds its newline: its ending is immaterial.
NoRead == [more |-> <<>>, eof |-> FALSE]

\* What the transport does to an operation that makes at most n transport
\* calls, none of them a read: one call fails (f = 1..n), or none (f = 0).
WriteEnvs(n) == {[f |-> k, end |-> NoRead] : k \in 0..n}

\* The same for an operation that reads, with buf buffered: when no call
\* fails, a read without a buffered newline ends in one of the ways left open.
Envs(n, buf) ==
    {[f |-> k, end |-> NoRead] : k \in 1..n} \cup
    {[f |-> 0, end |-> e] : e \in EndCases(buf)}

(* ------------------------------- state --------------------------------- *)

VARIABLES
    handle,     \* "none" before Kel103::new, "open" once it returned a handle,
                \* "failed" when it returned an error, "dropped" once the
                \* owner let the handle go
    ports,      \* the transport halves that are open
    info,       \* the identification reply Kel103::new accepted
    port_read,  \* reader half: the bytes the device has sent, not yet read
    pre_read,   \* port_read as it was when the latest operation began
    trace,      \* transport calls of the latest operation, in order
    call,       \* the latest operation and its arguments
    ret,        \* what the latest operation returned
    nread,      \* reply lines consumed from the reader so far
    unanswered  \* a query was written whose reply line has not been read

vars ==
    <<handle, ports, info, port_read, pre_read, trace, call, ret, nread,
      unanswered>>

(* ------------------------------ results -------------------------------- *)

NoVal == Unit

Ok(v) == [kind |-> "Ok", val |-> v, msg |-> "", expected |-> NoVal, got |-> NoVal]

Err(kind, v) ==
    [kind |-> kind, val |-> v, msg |-> "", expected |-> NoVal, got |-> NoVal]

\* KelError::ValueError(format!("<msg> Expected {}, got {}", expected, got))
ValueError(msg, expected, got) ==
    [kind |-> "ValueError", val |-> NoVal, msg |-> msg,
     expected |-> expected, got |-> got]

\* KelError::DeviceError(format!("<msg>{}", s))
DeviceError(msg, s) ==
    [kind |-> "DeviceError", val |-> Str(s), msg |-> msg,
     expected |-> NoVal, got |-> NoVal]

(* ----------------------------- transport ------------------------------- *)

\* The transport as an operation threads it: the reader, how a read without
\* a buffered newline ends, the calls made so far, their number, and whether
\* the last one failed.
Start(rd, end) == [rd |-> rd, end |-> end, tr |-> <<>>, n |-> 0, err |-> FALSE]

Event(ev, bytes, ok) == [ev |-> ev, bytes |-> bytes, ok |-> ok]

\* port_write.write_all(bytes)
write_all(s, bytes, f) ==
    [s EXCEPT !.n = @ + 1,
              !.tr = Append(@, Event("write", bytes, s.n + 1 # f)),
              !.err = (s.n + 1 = f)]

\* port_write.flush()
flush(s, f) ==
    [s EXCEPT !.n = @ + 1,
              !.tr = Append(@, Event("flush", <<>>, s.n + 1 # f)),
              !.err = (s.n + 1 = f)]

\* Variant: the read drains everything buffered instead of stopping at the
\* first newline.
read_until_all(s, f) ==
    IF s.n + 1 = f
    THEN [s EXCEPT !.n = @ + 1, !.err = TRUE,
                   !.tr = Append(@, Event("read", <<>>, FALSE))]
    ELSE [s EXCEPT !.n = @ + 1, !.err = FALSE, !.rd = <<>>,
                   !.tr = Append(@, Event("read", s.rd, TRUE))]

\* port_read.read_until(b'\n', &mut response_bytes): bytes up to and including
\* the first newline.  Without a newline the buffered bytes are consumed and
\* the call ends at end of stream (Ok) or at the read timeout (Err).  A fault
\* is a timeout before the next byte arrived.
read_until(s, f) ==
    LET buf == s.rd
        i == IndexOf(buf, LF)
    IN  IF s.n + 1 = f
        THEN [s EXCEPT !.n = @ + 1, !.err = TRUE,
                       !.tr = Append(@, Event("read", <<>>, FALSE))]
        ELSE IF i > 0
        THEN [s EXCEPT !.n = @ + 1, !.err = FALSE,
                       !.rd = SubSeq(buf, i + 1, Len(buf)),
                       !.tr = Append(@, Event("read", SubSeq(buf, 1, i), TRUE))]
        ELSE [s EXCEPT !.n = @ + 1, !.err = ~s.end.eof,
                       !.rd = <<>>,
                       !.tr = Append(@, Event("read", buf \o s.end.more, s.end.eof))]

\* The bytes the latest transport call of s carried.
LastBytes(s) == s.tr[Len(s.tr)].bytes

\* Variant: the terminator is written but the writer is not flushed.
send_noflush(s, message, f) ==
    LET a == write_all(s, message, f)
    IN  IF a.err THEN a ELSE write_all(a, <<LF>>, f)

send(s, message, f) ==
    LET a == write_all(s, message, f)
        b == write_all(a, <<LF>>, f)
    IN  IF a.err THEN a
        ELSE IF b.err THEN b
        ELSE flush(b, f)

\* Variant: the reply is read even though the send failed.
send_recv_reads_on(s, message, f) ==
    LET a == send(s, message, f)
        b == read_until([a EXCEPT !.err = FALSE], f)
    IN  IF a.err \/ b.err THEN [s |-> b, ret |-> Err("Io", NoVal)]
        ELSE IF ~IsUtf8(LastBytes(b))
        THEN [s |-> b, ret |-> Err("Utf8", Str(LastBytes(b)))]
        ELSE [s |-> b, ret |-> Ok(Str(LastBytes(b)))]

\* Returns the transport and either the reply text or the error.
send_recv(s, message, f) ==
    LET a == send(s, message, f)
        b == read_until(a, f)
    IN  IF a.err THEN [s |-> a, ret |-> Err("Io", NoVal)]
        ELSE IF b.err THEN [s |-> b, ret |-> Err("Io", NoVal)]
        ELSE IF ~IsUtf8(LastBytes(b))
        THEN [s |-> b, ret |-> Err("Utf8", Str(LastBytes(b)))]
        ELSE [s |-> b, ret |-> Ok(Str(LastBytes(b)))]

(* ----------------------------- operations ------------------------------ *)
\* Each operation takes the transport s and the failing call f, and returns
\* the transport it leaves and its result.

\* A Result<()> from send alone.
SendResult(a) ==
    IF a.err THEN [s |-> a, ret |-> Err("Io", NoVal)]
    ELSE [s |-> a, ret |-> Ok(Unit)]

device_info(s, f) == send_recv(s, IDN, f)

\* s.trim_end_matches([unit, '\n', '\r']).trim()
val_str(s, unit) == trim(trim_end_matches(s, {unit, LF, CR}))

\* The body the six measure functions share: query, strip, parse.
measure(s, query, unit, f) ==
    LET r == send_recv(s, query, f)
        p == parse_f32(val_str(r.ret.val.s, unit))
    IN  IF r.ret.kind # "Ok" THEN r
        ELSE IF p.ok THEN [s |-> r.s, ret |-> Ok(p.val)]
        ELSE [s |-> r.s, ret |-> [Err("ParseFloat", NoVal) EXCEPT !.msg = p.err]]

measure_volt(s, f) == measure(s, MEAS_VOLT, "V", f)

measure_set_volt(s, f) == measure(s, VOLT_Q, "V", f)

\* Variant: the read-back asks for the measured voltage, not the set one.
set_volt_meas(s, voltage, f) ==
    LET cmd == VOLT_SET \o Format3(voltage) \o <<"V">>
        a == send(s, cmd, f)
        m == measure_volt(a, f)
    IN  IF a.err THEN [s |-> a, ret |-> Err("Io", NoVal)]
        ELSE IF m.ret.kind # "Ok" THEN m
        ELSE IF exceeds_tolerance(m.ret.val, F32(voltage))
        THEN [s |-> m.s,
              ret |-> ValueError("Voltage set incorrectly on the device.",
                                 F32(voltage), m.ret.val)]
        ELSE [s |-> m.s, ret |-> Ok(Unit)]

set_volt(s, voltage, f) ==
    LET cmd == VOLT_SET \o Format3(voltage) \o <<"V">>
        a == send(s, cmd, f)
        m == measure_set_volt(a, f)
    IN  IF a.err THEN [s |-> a, ret |-> Err("Io", NoVal)]
        ELSE IF m.ret.kind # "Ok" THEN m
        ELSE IF exceeds_tolerance(m.ret.val, F32(voltage))
        THEN [s |-> m.s,
              ret |-> ValueError("Voltage set incorrectly on the device.",
                                 F32(voltage), m.ret.val)]
        ELSE [s |-> m.s, ret |-> Ok(Unit)]

measure_power(s, f) == measure(s, MEAS_POW, "W", f)

measure_set_power(s, f) == measure(s, POW_Q, "W", f)

set_power(s, power, f) ==
    LET cmd == POW_SET \o Format3(power) \o <<"W">>
        a == send(s, cmd, f)
        m == measure_set_power(a, f)
    IN  IF a.err THEN [s |-> a, ret |-> Err("Io", NoVal)]
        ELSE IF m.ret.kind # "Ok" THEN m
        ELSE IF exceeds_tolerance(m.ret.val, F32(power))
        THEN [s |-> m.s,
              ret |-> ValueError("Power set incorrectly on the device.",
                                 F32(power), m.ret.val)]
        ELSE [s |-> m.s, ret |-> Ok(Unit)]

measure_current(s, f) == measure(s, MEAS_CURR, "A", f)

measure_set_current(s, f) == measure(s, CURR_Q, "A", f)

set_current(s, current, f) ==
    LET cmd == CURR_SET \o Format3(current) \o <<"A">>
        a == send(s, cmd, f)
        m == measure_set_current(a, f)
    IN  IF a.err THEN [s |-> a, ret |-> Err("Io", NoVal)]
        ELSE IF m.ret.kind # "Ok" THEN m
        ELSE IF exceeds_tolerance(m.ret.val, F32(current))
        THEN [s |-> m.s,
              ret |-> ValueError("Current set incorrectly on the device.",
                                 F32(current), m.ret.val)]
        ELSE [s |-> m.s, ret |-> Ok(Unit)]

\* Variant: ON is looked for before OFF.
check_output_on_first(s, f) ==
    LET r == send_recv(s, INP_Q, f)
        t == r.ret.val.s
    IN  IF r.ret.kind # "Ok" THEN r
        ELSE IF contains(t, ON) THEN [s |-> r.s, ret |-> Ok(Bool(TRUE))]
        ELSE IF contains(t, OFF) THEN [s |-> r.s, ret |-> Ok(Bool(FALSE))]
        ELSE [s |-> r.s, ret |-> DeviceError("Unexpected response from :INP?: ", t)]

check_output(s, f) ==
    LET r == send_recv(s, INP_Q, f)
        t == r.ret.val.s
    IN  IF r.ret.kind # "Ok" THEN r
        ELSE IF contains(t, OFF) THEN [s |-> r.s, ret |-> Ok(Bool(FALSE))]
        ELSE IF contains(t, ON) THEN [s |-> r.s, ret |-> Ok(Bool(TRUE))]
        ELSE [s |-> r.s, ret |-> DeviceError("Unexpected response from :INP?: ", t)]

\* Variant: the state read back is not compared with the requested one.
set_output_unverified(s, state, f) ==
    LET cmd == IF state THEN INP_1 ELSE INP_0
        a == send(s, cmd, f)
        c == check_output(a, f)
    IN  IF a.err THEN [s |-> a, ret |-> Err("Io", NoVal)]
        ELSE IF c.ret.kind # "Ok" THEN c
        ELSE [s |-> c.s, ret |-> Ok(Unit)]

set_output(s, state, f) ==
    LET cmd == IF state THEN INP_1 ELSE INP_0
        a == send(s, cmd, f)
        c == check_output(a, f)
    IN  IF a.err THEN [s |-> a, ret |-> Err("Io", NoVal)]
        ELSE IF c.ret.kind # "Ok" THEN c
        ELSE IF c.ret.val # Bool(state)
        THEN [s |-> c.s,
              ret |-> ValueError("Caution: Output not set correctly.",
                                 Bool(state), c.ret.val)]
        ELSE [s |-> c.s, ret |-> Ok(Unit)]

set_constant_current(s, f) == SendResult(send(s, FUNC_CC, f))

\* Variant: the mode command waits for a reply line.
set_constant_power_recv(s, f) ==
    LET r == send_recv(s, FUNC_CW, f)
    IN  IF r.ret.kind # "Ok" THEN r ELSE [s |-> r.s, ret |-> Ok(Unit)]

set_constant_power(s, f) == SendResult(send(s, FUNC_CW, f))

set_constant_resistance(s, f) == SendResult(send(s, FUNC_CR, f))

\* Variant: the duty cycle is written before the frequency.
set_dynamic_mode_cv_swapped(s, voltage1, voltage2, freq, dutycycle, f) ==
    LET cmd == DYN_1 \o Format3(voltage1) \o <<"V", ",">>
                     \o Format3(voltage2) \o <<"V", ",">>
                     \o Format3(dutycycle) \o <<"%", ",">>
                     \o Format3(freq) \o HZ
    IN  SendResult(send(s, cmd, f))

set_dynamic_mode_cv(s, voltage1, voltage2, freq, dutycycle, f) ==
    LET cmd == DYN_1 \o Format3(voltage1) \o <<"V", ",">>
                     \o Format3(voltage2) \o <<"V", ",">>
                     \o Format3(freq) \o HZ \o <<",">>
                     \o Format3(dutycycle) \o <<"%">>
    IN  SendResult(send(s, cmd, f))

set_dynamic_mode_cc(s, slope1, slope2, current1, current2, freq, dutycycle, f) ==
    LET cmd == DYN_2 \o Format3(slope1) \o A_US \o <<",">>
                     \o Format3(slope2) \o A_US \o <<",">>
                     \o Format3(current1) \o <<"A", ",">>
                     \o Format3(current2) \o <<"A", ",">>
                     \o Format3(freq) \o HZ \o <<",">>
                     \o Format3(dutycycle) \o <<"%">>
    IN  SendResult(send(s, cmd, f))

\* Variant: the reply is stripped the way a voltage reply is.
get_dynamic_mode_stripped(s, f) ==
    LET r == send_recv(s, DYN_Q, f)
    IN  IF r.ret.kind # "Ok" THEN r
        ELSE [s |-> r.s, ret |-> Ok(Str(val_str(r.ret.val.s, "V")))]

get_dynamic_mode(s, f) ==
    LET r == send_recv(s, DYN_Q, f)
    IN  IF r.ret.kind # "Ok" THEN r
        ELSE [s |-> r.s, ret |-> Ok(Str(trim_end_matches(r.ret.val.s, {LF})))]

\* The two fields of Kel103, each an open port.
Halves == {"port_write", "port_read"}

\* Variant: the ports stay open whatever the result.
ReturnLeaking(r, owned) == [s |-> r.s, ret |-> r.ret, ports |-> owned]

\* Kel103::new returns r while it owns the open ports owned.  Ok(this) moves
\* them to the caller; on an error they go out of scope, and a port that is
\* dropped is closed.
Return(r, owned) ==
    [s |-> r.s, ret |-> r.ret,
     ports |-> IF r.ret.kind = "Ok" THEN owned ELSE {}]

\* Variant: the identification reply is not examined.
new_unchecked(s, open, f) ==
    LET r == device_info(s, f)
    IN  IF open = "open_native"
        THEN Return([s |-> s, ret |-> Err("Serial", NoVal)], {})
        ELSE IF open = "try_clone"
        THEN Return([s |-> s, ret |-> Err("Serial", NoVal)], {"port"})
        ELSE IF r.ret.kind # "Ok" THEN Return(r, Halves)
        ELSE Return([s |-> r.s, ret |-> Ok(Unit)], Halves)

\* Kel103::new.  open tells whether open_native and try_clone succeed: the
\* first opens the port, the second duplicates it for the writer half.
new(s, open, f) ==
    LET r == device_info(s, f)
    IN  IF open = "open_native"
        THEN Return([s |-> s, ret |-> Err("Serial", NoVal)], {})
        ELSE IF open = "try_clone"
        THEN Return([s |-> s, ret |-> Err("Serial", NoVal)], {"port"})
        ELSE IF r.ret.kind # "Ok" THEN Return(r, Halves)
        ELSE IF ~contains(r.ret.val.s, KEL103)
        THEN Return([s |-> r.s, ret |-> Err("DeviceModel", r.ret.val)], Halves)
        ELSE Return([s |-> r.s, ret |-> Ok(Unit)], Halves)

(* ------------------------------ actions -------------------------------- *)

\* Complete reply lines that the reads of tr consumed.
LinesRead(tr) ==
    Cardinality({i \in 1..Len(tr) :
        /\ tr[i].ev = "read" /\ tr[i].ok
        /\ tr[i].bytes # <<>> /\ tr[i].bytes[Len(tr[i].bytes)] = LF})

\* Queries that the sends of tr delivered: a command ending in ? asks the
\* device for one reply line.
QueriesSent(tr) ==
    Cardinality({i \in 3..Len(tr) :
        /\ tr[i].ev = "flush" /\ tr[i].ok
        /\ tr[i - 2].bytes # <<>>
        /\ tr[i - 2].bytes[Len(tr[i - 2].bytes)] = "?"})

\* The operation op(args) ran and produced R.
Apply(op, args, R) ==
    \E r \in {R} :
        /\ call' = [op |-> op, args |-> args]
        /\ ret' = r.ret
        /\ trace' = r.s.tr
        /\ port_read' = r.s.rd
        /\ pre_read' = port_read
        /\ nread' = nread + LinesRead(r.s.tr)
        /\ unanswered' = (unanswered \/ QueriesSent(r.s.tr) > LinesRead(r.s.tr))

\* An operation on a constructed handle.
OnHandle(op, args, R) ==
    /\ handle = "open"
    /\ Apply(op, args, R)
    /\ UNCHANGED <<handle, ports, info>>

Init ==
    /\ handle = "none"
    /\ ports = {}
    /\ info = <<>>
    /\ \E ls \in Scripts : port_read = Flatten(ls)
    /\ pre_read = port_read
    /\ trace = <<>>
    /\ call = [op |-> "none", args |-> <<>>]
    /\ ret = Ok(Unit)
    /\ nread = 0
    /\ unanswered = FALSE

\* The transport at the start of an operation.
S0(end) == Start(port_read, end)

New ==
    /\ handle = "none"
    /\ \E open \in {"ok", "open_native", "try_clone"},
          e \in Envs(4, port_read) :
        \E R \in {new(S0(e.end), open, e.f)} :
            /\ Apply("new", <<>>, R)
            /\ handle' = IF R.ret.kind = "Ok" THEN "open" ELSE "failed"
            /\ ports' = R.ports
            /\ info' = IF R.ret.kind = "Ok" THEN LastBytes(R.s) ELSE <<>>

DeviceInfo ==
    \E e \in Envs(4, port_read) :
        OnHandle("device_info", <<>>, device_info(S0(e.end), e.f))

MeasureVolt ==
    \E e \in Envs(4, port_read) :
        OnHandle("measure_volt", <<>>, measure_volt(S0(e.end), e.f))

MeasureSetVolt ==
    \E e \in Envs(4, port_read) :
        OnHandle("measure_set_volt", <<>>, measure_set_volt(S0(e.end), e.f))

SetVolt ==
    \E v \in Values, e \in Envs(7, port_read) :
        OnHandle("set_volt", <<v>>, set_volt(S0(e.end), v, e.f))

MeasurePower ==
    \E e \in Envs(4, port_read) :
        OnHandle("measure_power", <<>>, measure_power(S0(e.end), e.f))

MeasureSetPower ==
    \E e \in Envs(4, port_read) :
        OnHandle("measure_set_power", <<>>, measure_set_power(S0(e.end), e.f))

SetPower ==
    \E v \in Values, e \in Envs(7, port_read) :
        OnHandle("set_power", <<v>>, set_power(S0(e.end), v, e.f))

MeasureCurrent ==
    \E e \in Envs(4, port_read) :
        OnHandle("measure_current", <<>>, measure_current(S0(e.end), e.f))

MeasureSetCurrent ==
    \E e \in Envs(4, port_read) :
        OnHandle("measure_set_current", <<>>, measure_set_current(S0(e.end), e.f))

SetCurrent ==
    \E v \in Values, e \in Envs(7, port_read) :
        OnHandle("set_current", <<v>>, set_current(S0(e.end), v, e.f))

CheckOutput ==
    \E e \in Envs(4, port_read) :
        OnHandle("check_output", <<>>, check_output(S0(e.end), e.f))

SetOutput ==
    \E state \in BOOLEAN, e \in Envs(7, port_read) :
        OnHandle("set_output", <<Bool(state).n>>, set_output(S0(e.end), state, e.f))

SetConstantCurrent ==
    \E e \in WriteEnvs(3) :
        OnHandle("set_constant_current", <<>>, set_constant_current(S0(e.end), e.f))

SetConstantPower ==
    \E e \in WriteEnvs(3) :
        OnHandle("set_constant_power", <<>>, set_constant_power(S0(e.end), e.f))

SetConstantResistance ==
    \E e \in WriteEnvs(3) :
        OnHandle("set_constant_resistance", <<>>,
                 set_constant_resistance(S0(e.end), e.f))

SetDynamicModeCv ==
    \E a \in CvArgs, e \in WriteEnvs(3) :
        OnHandle("set_dynamic_mode_cv", a,
                 set_dynamic_mode_cv(S0(e.end), a[1], a[2], a[3], a[4], e.f))

SetDynamicModeCc ==
    \E a \in CcArgs, e \in WriteEnvs(3) :
        OnHandle("set_dynamic_mode_cc", a,
                 set_dynamic_mode_cc(S0(e.end), a[1], a[2], a[3], a[4], a[5],
                                     a[6], e.f))

GetDynamicMode ==
    \E e \in Envs(4, port_read) :
        OnHandle("get_dynamic_mode", <<>>, get_dynamic_mode(S0(e.end), e.f))

\* The owner lets the handle go: both fields are dropped, which closes
\* port_write and port_read.  What the device sent stays unread.
Drop ==
    /\ handle = "open"
    /\ handle' = "dropped"
    /\ ports' = {}
    /\ port_read' = port_read
    /\ pre_read' = port_read
    /\ trace' = <<>>
    /\ call' = [op |-> "drop", args |-> <<>>]
    /\ ret' = Ok(Unit)
    /\ UNCHANGED <<info, nread, unanswered>>

Next ==
    \/ New
    \/ DeviceInfo
    \/ MeasureVolt
    \/ MeasureSetVolt
    \/ SetVolt
    \/ MeasurePower
    \/ MeasureSetPower
    \/ SetPower
    \/ MeasureCurrent
    \/ MeasureSetCurrent
    \/ SetCurrent
    \/ CheckOutput
    \/ SetOutput
    \/ SetConstantCurrent
    \/ SetConstantPower
    \/ SetConstantResistance
    \/ SetDynamicModeCv
    \/ SetDynamicModeCc
    \/ GetDynamicMode
    \/ Drop

Spec == Init /\ [][Next]_vars

(* ===================== properties of the operations ==================== *)

W(bytes) == Event("write", bytes, TRUE)
Fl == Event("flush", <<>>, TRUE)

\* The transport calls of one successful send of message.
SendTrace(message) == <<W(message), W(<<LF>>), Fl>>

\* The latest operation ended with a read that returned bytes.
HasRead ==
    trace # <<>> /\ trace[Len(trace)].ev = "read" /\ trace[Len(trace)].ok
ReadBytes == trace[Len(trace)].bytes
\* ... and the bytes decoded as text.
GotText == HasRead /\ IsUtf8(ReadBytes)

ReadCount == Cardinality({i \in 1..Len(trace) : trace[i].ev = "read"})

HasLine(buf) == \E i \in 1..Len(buf) : buf[i] = LF
HeadLine(buf) == SubSeq(buf, 1, IndexOf(buf, LF))
AfterHeadLine(buf) == SubSeq(buf, IndexOf(buf, LF) + 1, Len(buf))

VoltOps == {"measure_volt", "measure_set_volt", "set_volt"}
PowerOps == {"measure_power", "measure_set_power", "set_power"}
CurrentOps == {"measure_current", "measure_set_current", "set_current"}
NumericSetOps == {"set_volt", "set_power", "set_current"}
MeasureOps == (VoltOps \cup PowerOps \cup CurrentOps) \ NumericSetOps
FireOps ==
    {"set_constant_current", "set_constant_power", "set_constant_resistance",
     "set_dynamic_mode_cv", "set_dynamic_mode_cc"}

UnitOf(op) ==
    IF op \in VoltOps THEN "V" ELSE IF op \in PowerOps THEN "W" ELSE "A"

SetPrefixOf(op) ==
    IF op = "set_volt" THEN VOLT_SET
    ELSE IF op = "set_power" THEN POW_SET
    ELSE CURR_SET

SetQueryOf(op) ==
    IF op = "set_volt" THEN VOLT_Q
    ELSE IF op = "set_power" THEN POW_Q
    ELSE CURR_Q

\* The requested values written with three decimals.
Text3(v) ==
    IF v = V12_5 THEN <<"1", "2", ".", "5", "0", "0">>
    ELSE <<"1", ".", "2", "3", "5">>

\* The value a numeric set operation read back, when it read one.
ReadBack == parse_f32(val_str(ReadBytes, UnitOf(call.op)))

(* C1: Kel103::new returns a handle only after it wrote *IDN? and read a    *)
(* reply containing KEL103; a reply text without KEL103 makes it fail with *)
(* DeviceModel carrying that text, and no handle exists.                   *)
C1_ModelChecked ==
    /\ handle = "open" => contains(info, KEL103)
    /\ (call.op = "new" /\ ret.kind = "Ok") =>
        /\ handle = "open"
        /\ trace = SendTrace(IDN) \o <<Event("read", info, TRUE)>>
    /\ (call.op = "new" /\ GotText /\ ~contains(ReadBytes, KEL103)) =>
        /\ handle = "failed"
        /\ ret.kind = "DeviceModel"
        /\ ret.val = Str(ReadBytes)
    /\ (call.op = "new" /\ ret.kind # "Ok") => handle = "failed"

C1_Witness ==
    /\ call.op = "new"
    /\ handle = "failed"
    /\ ret.kind = "DeviceModel"
    /\ ret.val = Str(ReplyOther)

(* C2: every call that reads consumes exactly the first queued line: the   *)
(* text it returns is that line, and the lines behind it stay queued in    *)
(* order, so the k-th call gets the k-th line.                             *)
C2_OneLinePerCall ==
    /\ ReadCount <= 1
    /\ (HasRead /\ HasLine(pre_read)) =>
        /\ ReadBytes = HeadLine(pre_read)
        /\ port_read = AfterHeadLine(pre_read)
    /\ ~HasRead => (port_read = pre_read \/ ~HasLine(pre_read))
    /\ (call.op = "device_info" /\ ret.kind = "Ok" /\ HasLine(pre_read)) =>
        ret.val = Str(HeadLine(pre_read))
    /\ (call.op = "measure_volt" /\ ret.kind = "Ok" /\ HasLine(pre_read)) =>
        ret.val = parse_f32(val_str(HeadLine(pre_read), "V")).val

C2_Witness ==
    /\ call.op = "measure_volt"
    /\ nread = 3
    /\ pre_read = Reply12Off
    /\ ret = Ok(F32(V12_5 + Scale \div 1000))
    /\ port_read = <<>>

(* C3: a numeric set operation whose read-back equals the requested value  *)
(* returns Ok; one whose read-back differs from it by more than 1e-9 fails *)
(* with ValueError reporting the expected and the observed value.          *)
C3_SetVerified ==
    (call.op \in NumericSetOps /\ GotText /\ ReadBack.ok /\ ReadBack.val.t = "f32") =>
        /\ ReadBack.val = F32(call.args[1]) => ret = Ok(Unit)
        /\ Abs(ReadBack.val.n - call.args[1]) > Scale \div TolInv =>
            /\ ret.kind = "ValueError"
            /\ ret.expected = F32(call.args[1])
            /\ ret.got = ReadBack.val

C3_Witness ==
    /\ call.op = "set_current"
    /\ call.args = <<V12_5>>
    /\ ReadBytes = Reply12Off
    /\ ret.kind = "ValueError"
    /\ ret.expected = F32(V12_5)
    /\ ret.got = F32(V12_5 + Scale \div 1000)

(* C4: a numeric set operation on which no transport call failed wrote its *)
(* set command, then the matching set-value query, then read once, and     *)
(* nothing after that, whether or not the read-back matched.               *)
C4_WriteThenReadBack ==
    (call.op \in NumericSetOps /\ ret.kind # "Io") =>
        /\ Len(trace) = 7
        /\ SubSeq(trace, 1, 6) =
             SendTrace(SetPrefixOf(call.op) \o Text3(call.args[1])
                       \o <<UnitOf(call.op)>>)
             \o SendTrace(SetQueryOf(call.op))
        /\ trace[7].ev = "read"
        /\ ReadCount = 1

C4_Witness ==
    /\ call.op = "set_power"
    /\ call.args = <<VFine>>
    /\ ret.kind = "ValueError"
    /\ Len(trace) = 7

(* C5 as stated: check_output returns true for any reply containing ON,    *)
(* false for any reply containing OFF, DeviceError with the reply when it  *)
(* contains neither.                                                       *)
C5_AsStated ==
    (call.op = "check_output" /\ GotText) =>
        /\ contains(ReadBytes, ON) => ret = Ok(Bool(TRUE))
        /\ contains(ReadBytes, OFF) => ret = Ok(Bool(FALSE))
        /\ (~contains(ReadBytes, ON) /\ ~contains(ReadBytes, OFF)) =>
            (ret.kind = "DeviceError" /\ ret.val = Str(ReadBytes))

(* C5 amended: check_output returns false for any reply containing OFF,    *)
(* true for any reply containing ON and not OFF, DeviceError with the raw  *)
(* reply when it contains neither; lower-case on is neither.               *)
C5_OffBeforeOn ==
    (call.op = "check_output" /\ GotText) =>
        /\ contains(ReadBytes, OFF) => ret = Ok(Bool(FALSE))
        /\ (contains(ReadBytes, ON) /\ ~contains(ReadBytes, OFF)) =>
            ret = Ok(Bool(TRUE))
        /\ (~contains(ReadBytes, ON) /\ ~contains(ReadBytes, OFF)) =>
            (ret.kind = "DeviceError" /\ ret.val = Str(ReadBytes))
        /\ ReadBytes = ReplyLower => ret.kind = "DeviceError"

C5_Witness ==
    /\ call.op = "check_output"
    /\ GotText
    /\ ReadBytes = ReplyBoth
    /\ ret = Ok(Bool(FALSE))

\* The boolean a reply to :INP? stands for, when it stands for one.
StateOf(text) == ~contains(text, OFF)
NamesState(text) == contains(text, OFF) \/ contains(text, ON)

(* C6: set_output(state) writes :INP 1 or :INP 0, then :INP?, then reads   *)
(* once; it returns Ok only if the state read back is the requested one,   *)
(* and ValueError, with nothing more written, if it is the other one.      *)
C6_OutputVerified ==
    (call.op = "set_output" /\ ret.kind # "Io") =>
        /\ Len(trace) = 7
        /\ SubSeq(trace, 1, 6) =
             SendTrace(IF call.args[1] = 1 THEN INP_1 ELSE INP_0)
             \o SendTrace(INP_Q)
        /\ trace[7].ev = "read"
        /\ ret.kind = "Ok" =>
             (GotText /\ NamesState(ReadBytes)
              /\ StateOf(ReadBytes) = (call.args[1] = 1))
        /\ (GotText /\ NamesState(ReadBytes)
            /\ StateOf(ReadBytes) # (call.args[1] = 1)) =>
             /\ ret.kind = "ValueError"
             /\ ret.expected = Bool(call.args[1] = 1)
             /\ ret.got = Bool(StateOf(ReadBytes))

C6_Witness ==
    /\ call.op = "set_output"
    /\ call.args = <<1>>
    /\ ReadBytes = ReplyOff
    /\ ret.kind = "ValueError"
    /\ ret.got = Bool(FALSE)
    /\ Len(trace) = 7

\* The command line of the latest fire-and-forget operation.
FireLine ==
    IF call.op = "set_constant_current" THEN FUNC_CC
    ELSE IF call.op = "set_constant_power" THEN FUNC_CW
    ELSE IF call.op = "set_constant_resistance" THEN FUNC_CR
    ELSE trace[1].bytes

(* C7: a mode or dynamic-profile command writes one line and reads nothing,*)
(* leaving the reader and its queued lines as they were; every other       *)
(* setting operation that returns Ok has read a reply.                     *)
C7_FireAndForget ==
    /\ call.op \in FireOps =>
        /\ ReadCount = 0
        /\ port_read = pre_read
        /\ ret.kind = "Ok" => trace = SendTrace(FireLine)
        /\ Len(trace) <= 3
    /\ (call.op \in NumericSetOps \cup {"set_output"} /\ ret.kind = "Ok") =>
        HasRead

C7_Witness ==
    /\ call.op = "set_constant_power"
    /\ ret.kind = "Ok"
    /\ port_read = Reply12V
    /\ trace = SendTrace(FUNC_CW)

\* An initial part of tr, all of whose calls but the last succeeded.
FailsAtEnd(tr) ==
    /\ tr # <<>>
    /\ ~tr[Len(tr)].ok
    /\ \A i \in 1..(Len(tr) - 1) : tr[i].ok

(* C8: a send that succeeds has written the command, then one newline,     *)
(* then flushed, and nothing else; one that fails returns Io right after   *)
(* the failing write or flush, without a further attempt.                  *)
C8_SendOneLine ==
    /\ call.op \in FireOps =>
        /\ ret.kind \in {"Ok", "Io"}
        /\ ret.kind = "Ok" =>
            /\ Len(trace) = 3
            /\ trace[1] = W(FireLine)
            /\ \A i \in 1..Len(FireLine) : FireLine[i] # LF
            /\ trace[2] = W(<<LF>>)
            /\ trace[3] = Fl
        /\ ret.kind = "Io" =>
            /\ FailsAtEnd(trace)
            /\ Len(trace) <= 3
            /\ \A i \in 1..Len(trace) :
                 trace[i].ev = SendTrace(FireLine)[i].ev
    \* In every operation a completed flush ends one send: command, newline.
    /\ \A i \in 1..Len(trace) :
        (trace[i].ev = "flush" /\ trace[i].ok) =>
            /\ i >= 3
            /\ trace[i - 1] = W(<<LF>>)
            /\ trace[i - 2].ev = "write" /\ trace[i - 2].ok
            /\ \A j \in 1..Len(trace[i - 2].bytes) : trace[i - 2].bytes[j] # LF
            /\ i >= 4 => trace[i - 3].ev = "flush"
    /\ \A i \in 1..Len(trace) :
        (trace[i].ev # "read" /\ ~trace[i].ok) =>
            (i = Len(trace) /\ ret.kind = "Io")

C8_Witness ==
    /\ call.op = "set_constant_current"
    /\ ret.kind = "Io"
    /\ Len(trace) = 3
    /\ trace[3] = Event("flush", <<>>, FALSE)

\* num followed only by unit letters, CR, LF and whitespace.
IsSuffixed(text, num, unit) ==
    /\ Len(text) >= Len(num)
    /\ SubSeq(text, 1, Len(num)) = num
    /\ \A i \in (Len(num) + 1)..Len(text) : text[i] \in {unit, CR, LF, SP, TAB}

Num12_500 == <<"1", "2", ".", "5", "0", "0">>

(* C9: stripping a reply made of 12.500 and any trailing unit letters, CR, *)
(* LF and whitespace yields 12.500, which parses to 12.5, and stripping    *)
(* the stripped text again changes nothing.                                *)
C9_StripIdempotent ==
    (call.op \in MeasureOps /\ GotText
     /\ IsSuffixed(ReadBytes, Num12_500, UnitOf(call.op))) =>
        /\ val_str(ReadBytes, UnitOf(call.op)) = Num12_500
        /\ val_str(val_str(ReadBytes, UnitOf(call.op)), UnitOf(call.op))
             = val_str(ReadBytes, UnitOf(call.op))
        /\ ret = Ok(F32(V12_5))

\* Decimal text: an optional sign, digits, at most one point, a digit at least.
IsNumeric(text) ==
    LET body == IF text # <<>> /\ text[1] \in {"-", "+"} THEN Tail(text) ELSE text
    IN  /\ \A i \in 1..Len(body) : IsDigit(body[i]) \/ body[i] = "."
        /\ \E i \in 1..Len(body) : IsDigit(body[i])
        /\ Cardinality({i \in 1..Len(body) : body[i] = "."}) <= 1

(* C10: in a measure, get-set or numeric set operation, a reply whose      *)
(* stripped text is not numeric makes the call fail with ParseFloat, never *)
(* ValueError or Ok, and the error carries the offending text.             *)
C10_ParseErrorNamesText ==
    (call.op \in MeasureOps \cup NumericSetOps /\ GotText
     /\ HasLine(ReadBytes)
     /\ ~IsNumeric(val_str(ReadBytes, UnitOf(call.op)))) =>
        /\ ret.kind = "ParseFloat"
        /\ ret.val = Str(val_str(ReadBytes, UnitOf(call.op)))

\* Whole numbers written with three decimals.
Dec3(v) ==
    CASE v = 1 * Scale -> <<"1", ".", "0", "0", "0">>
      [] v = 2 * Scale -> <<"2", ".", "0", "0", "0">>
      [] v = 3 * Scale -> <<"3", ".", "0", "0", "0">>
      [] v = 4 * Scale -> <<"4", ".", "0", "0", "0">>
      [] v = 25 * Scale -> <<"2", "5", ".", "0", "0", "0">>
      [] v = 50 * Scale -> <<"5", "0", ".", "0", "0", "0">>

\* :DYN 1,<voltage1>V,<voltage2>V,<freq>HZ,<dutycycle>%
CvLine(a) ==
    <<":", "D", "Y", "N", SP, "1", ",">>
        \o Dec3(a[1]) \o <<"V", ",">> \o Dec3(a[2]) \o <<"V", ",">>
        \o Dec3(a[3]) \o <<"H", "Z", ",">> \o Dec3(a[4]) \o <<"%">>

\* :DYN 2,<slope1>A/uS,<slope2>A/uS,<current1>A,<current2>A,<freq>HZ,<dutycycle>%
CcLine(a) ==
    <<":", "D", "Y", "N", SP, "2", ",">>
        \o Dec3(a[1]) \o <<"A", "/", "u", "S", ",">>
        \o Dec3(a[2]) \o <<"A", "/", "u", "S", ",">>
        \o Dec3(a[3]) \o <<"A", ",">> \o Dec3(a[4]) \o <<"A", ",">>
        \o Dec3(a[5]) \o <<"H", "Z", ",">> \o Dec3(a[6]) \o <<"%">>

\* :DYN 1,1.000V,2.000V,50.000HZ,25.000%
CvExample ==
    <<":", "D", "Y", "N", SP, "1", ",", "1", ".", "0", "0", "0", "V", ",",
      "2", ".", "0", "0", "0", "V", ",", "5", "0", ".", "0", "0", "0", "H",
      "Z", ",", "2", "5", ".", "0", "0", "0", "%">>

\* The bytes of the successful writes of the latest operation, in order.
RECURSIVE Written(_)
Written(tr) ==
    IF tr = <<>> THEN <<>>
    ELSE (IF Head(tr).ev = "write" /\ Head(tr).ok THEN Head(tr).bytes ELSE <<>>)
         \o Written(Tail(tr))

(* C11: set_dynamic_mode_cv writes exactly one line, :DYN 1, followed by   *)
(* voltage1, voltage2, frequency and duty cycle; set_dynamic_mode_cc one   *)
(* line, :DYN 2, followed by slope1, slope2, current1, current2, frequency *)
(* and duty cycle; each parameter has three decimals and its unit suffix,  *)
(* commas between them, and (1, 2, 50, 25) gives the example line.         *)
C11_DynamicLines ==
    /\ (call.op = "set_dynamic_mode_cv" /\ ret.kind = "Ok") =>
        /\ trace = SendTrace(CvLine(call.args))
        /\ Written(trace) = CvLine(call.args) \o <<LF>>
        /\ call.args = <<1 * Scale, 2 * Scale, 50 * Scale, 25 * Scale>> =>
             trace[1].bytes = CvExample
    /\ (call.op = "set_dynamic_mode_cc" /\ ret.kind = "Ok") =>
        /\ trace = SendTrace(CcLine(call.args))
        /\ Written(trace) = CcLine(call.args) \o <<LF>>
    /\ call.op \in {"set_dynamic_mode_cv", "set_dynamic_mode_cc"} =>
        /\ Cardinality({i \in 1..Len(Written(trace)) :
                            Written(trace)[i] = LF}) <= 1
        /\ ReadCount = 0

C11_Witness ==
    /\ call.op = "set_dynamic_mode_cv"
    /\ call.args = <<1 * Scale, 2 * Scale, 50 * Scale, 25 * Scale>>
    /\ ret.kind = "Ok"
    /\ trace[1].bytes = CvExample

(* C12: get_dynamic_mode writes :DYN?, reads one reply line and returns    *)
(* the text of that line without its newline and otherwise unchanged:      *)
(* carriage return, unit letter and whitespace stay, and the result        *)
(* followed by a newline is the line that was read.                        *)
C12_RawReply ==
    call.op = "get_dynamic_mode" =>
        /\ ret.kind = "Ok" =>
            /\ Len(trace) = 4
            /\ SubSeq(trace, 1, 3) = SendTrace(DYN_Q)
            /\ HasRead
            /\ ReadCount = 1
        /\ (GotText /\ HasLine(ReadBytes)) =>
            /\ ret.kind = "Ok"
            /\ ret.val.t = "str"
            /\ ret.val.s \o <<LF>> = ReadBytes
            /\ ReadBytes = HeadLine(pre_read)
            /\ port_read = AfterHeadLine(pre_read)
        \* Whatever was read, nothing but a final newline is removed.
        /\ GotText =>
            /\ ret.kind = "Ok"
            /\ Len(ret.val.s) <= Len(ReadBytes)
            /\ ret.val.s = SubSeq(ReadBytes, 1, Len(ret.val.s))
            /\ SubSeq(ReadBytes, Len(ret.val.s) + 1, Len(ReadBytes))
                 \in {<<>>, <<LF>>}

C12_Witness ==
    /\ call.op = "get_dynamic_mode"
    /\ ret = Ok(Str(<<"1", "2", ".", "5", "0", "0", "V", SP, CR>>))
    /\ ReadBytes = Reply12VSp

(* C13: the reply line an operation parses answers the query that the same *)
(* operation wrote: when an operation has read a reply line, no query      *)
(* written on the handle is left without its reply, so no operation reads  *)
(* the late reply to an earlier query.                                     *)
C13_ReplyAnswersOwnQuery ==
    LinesRead(trace) > 0 => ~unanswered

\* The number text that the set command of the latest operation carried:
\* what lies between the command prefix and the unit letter.
CarriedText ==
    SubSeq(trace[1].bytes, Len(SetPrefixOf(call.op)) + 1,
           Len(trace[1].bytes) - 1)

\* The device reported, in answer to the set-value query, the value that the
\* set command carried.
ReportsStored ==
    /\ call.op \in NumericSetOps
    /\ GotText
    /\ HasLine(ReadBytes)
    /\ ReadBack.ok
    /\ ReadBack.val = parse_f32(CarriedText).val

(* C14: when the device reports in its read-back the value that the text   *)
(* of the set command carried, set_volt, set_power and set_current return  *)
(* Ok, whatever the requested value, 1.2346 included.                      *)
C14_StoredValueAccepted ==
    ReportsStored => ret.kind = "Ok"

\* A transport step of the latest operation failed: a write, a flush or a
\* read returned an error, or the bytes read do not decode.
StepFailed ==
    \/ \E i \in 1..Len(trace) : ~trace[i].ok
    \/ HasRead /\ ~IsUtf8(ReadBytes)

(* C15: the first transport step that fails (write, flush, read, UTF-8     *)
(* decoding) is the last transport call of the operation, whose result is  *)
(* that error; a failed send is followed by no read, and a failed set      *)
(* command by no verification query.  No operation repeats a step.         *)
C15_FirstFailureStops ==
    /\ \A i \in 1..Len(trace) :
        ~trace[i].ok => (i = Len(trace) /\ ret.kind = "Io")
    /\ \A i \in 1..Len(trace) :
        (trace[i].ev = "read" /\ ~IsUtf8(trace[i].bytes)) =>
            (i = Len(trace) /\ ret.kind \in {"Io", "Utf8"})
    /\ (HasRead /\ ~IsUtf8(ReadBytes)) => ret.kind = "Utf8"
    /\ ret.kind \in {"Io", "Utf8"} <=> StepFailed
    \* send_recv: no read after a failed send.
    /\ (\E i \in 1..Len(trace) : trace[i].ev # "read" /\ ~trace[i].ok) =>
        ReadCount = 0
    \* Set operations: no query after a failed set command.
    /\ (call.op \in NumericSetOps \cup {"set_output"}
        /\ \E i \in 1..3 : i <= Len(trace) /\ ~trace[i].ok) =>
            Len(trace) <= 3
    \* No retries: one read at most, and no command written twice.
    /\ ReadCount <= 1
    /\ \A i, j \in 1..Len(trace) :
        (i < j /\ trace[i].ev = "write" /\ trace[j].ev = "write"
         /\ trace[i].bytes # <<LF>>) => trace[i].bytes # trace[j].bytes
    /\ Len(trace) <= 7

C15_Witness ==
    /\ call.op = "set_output"
    /\ Len(trace) = 3
    /\ trace[3] = Event("flush", <<>>, FALSE)
    /\ ret.kind = "Io"
    /\ HasLine(pre_read)
    /\ port_read = pre_read

(* C16: a text that send_recv returns as a success is one complete reply   *)
(* line: it ends with a newline and holds no other; a read that reaches    *)
(* end of stream before a newline makes the call fail.                     *)
C16_SuccessIsOneLine ==
    (call.op = "device_info" /\ ret.kind = "Ok") =>
        /\ ret.val.s # <<>>
        /\ ret.val.s[Len(ret.val.s)] = LF
        /\ IndexOf(ret.val.s, LF) = Len(ret.val.s)

====
